---------------------------- MODULE Spec2Model ----------------------------
(***************************************************************************)
(* The tree pipeline of git-truck-api/utils/jsonUtils.ts and its callers   *)
(* in utils/htmlParser.ts.                                                 *)
(*                                                                         *)
(* A TreeNode is a record; an optional field of the TypeScript interface   *)
(* is a field the record may lack ("authors" \in DOMAIN n is               *)
(* hasOwnProperty / !== undefined).  An authors object is the sequence of  *)
(* its entries in iteration order (author names are not array indices, so  *)
(* the iteration order of the object is its insertion order).  An entry of *)
(* a commits list is [str |-> h] for the hash string h, or a Commit        *)
(* record [hash, message, date].  A formatted date `${day} ${mon} ${year}` *)
(* is the triple <<day, mon, year>>.  In-place mutation of the tree is the *)
(* replacement of the variable tree by the mutated value.                  *)
(***************************************************************************)
EXTENDS Integers, Sequences, FiniteSets, TLC

VARIABLES
    input,        \* the raw tree as the upstream producer built it
    tree,         \* the tree the stages mutate in place
    commitsJson,  \* the commit dictionary, hash -> RawCommit
    runs,         \* how many times each in-place stage ran on tree
    status,       \* "ok", or "error" once a stage threw
    out           \* the result of the last read-only operation

vars == <<input, tree, commitsJson, runs, status, out>>

----------------------------------------------------------------------------
(* Bounds and input domains *)

MaxNodes == 3      \* nodes of an input tree
MaxCommits == 2    \* entries of a blob's commits list
MaxPasses == 2     \* passes of updateCommits over one tree

AuthorNames == <<"A", "B">>
Authors == {AuthorNames[i] : i \in DOMAIN AuthorNames}
Weights == {0, 1, 2}
Hashes == {"h1", "h2"}
Times == {1690000000, 1700000000}
Epochs == {0, 1700000000}

\* String(x) of a non-string object, as a property key
ObjectKey == "[object Object]"

\* the numbers that are not integers
NaN == -999
Infinity == 2147483647

----------------------------------------------------------------------------
(* Generic helpers *)

SetMin(S) == CHOOSE x \in S : \A y \in S : x <= y
SetMax(S) == CHOOSE x \in S : \A y \in S : x >= y

RECURSIVE SeqSum(_)
SeqSum(s) == IF s = <<>> THEN 0 ELSE Head(s) + SeqSum(Tail(s))

\* Array.prototype.sort((a, b) => b.key - a.key) over the records of s, which
\* carry the number they are compared by in the field key.  The sort is
\* stable: e goes after every element the comparator does not put after it
\* (b.key - a.key <= 0, and a NaN difference compares as equal).
notAfter(x, e) ==
    IF x.key = NaN \/ e.key = NaN THEN TRUE ELSE e.key - x.key <= 0

RECURSIVE InsertSorted(_, _)
InsertSorted(s, e) ==
    IF s = <<>> THEN <<e>>
    ELSE IF notAfter(s[Len(s)], e) THEN Append(s, e)
    ELSE Append(InsertSorted(SubSeq(s, 1, Len(s) - 1), e), s[Len(s)])

RECURSIVE sortDesc(_)
sortDesc(s) ==
    IF s = <<>> THEN <<>>
    ELSE InsertSorted(sortDesc(SubSeq(s, 1, Len(s) - 1)), s[Len(s)])

----------------------------------------------------------------------------
(* dateUtils.ts *)

monthNames == <<"Ene", "Feb", "Mar", "Abr", "May", "Jun",
                "Jul", "Ago", "Sep", "Oct", "Nov", "Dic">>

\* new Date(unixTime * 1000): the calendar date (UTC) of the day the instant
\* falls in, as [day, monthIndex, year]
convertUnixTimeToDate(unixTime) ==
    LET z == (unixTime \div 86400) + 719468
        era == z \div 146097
        doe == z - era * 146097
        yoe == (doe - doe \div 1460 + doe \div 36524 - doe \div 146096) \div 365
        doy == doe - (365 * yoe + yoe \div 4 - yoe \div 100)
        mp == (5 * doy + 2) \div 153
        m == IF mp < 10 THEN mp + 3 ELSE mp - 9
    IN  [day |-> doy - (153 * mp + 2) \div 5 + 1,
         monthIndex |-> m - 1,
         year |-> yoe + era * 400 + (IF m <= 2 THEN 1 ELSE 0)]

formatDate(date) == <<date.day, monthNames[date.monthIndex + 1], date.year>>

----------------------------------------------------------------------------
(* jsonUtils.ts: updateAuthorValues *)

\* sum + jsonObj.authors[key]
totalSum(authors) ==
    IF \E i \in DOMAIN authors : authors[i].contribution = NaN THEN NaN
    ELSE SeqSum([i \in DOMAIN authors |-> authors[i].contribution])

\* percentage with Math.floor for Math.round
percentageFloor(weight, total) ==
    IF weight = NaN \/ total = NaN \/ total = 0 THEN NaN
    ELSE (100 * weight) \div total

\* Math.round(weight / total * 100); 0 / 0 is NaN
percentage(weight, total) ==
    IF weight = NaN \/ total = NaN \/ total = 0 THEN NaN
    ELSE (200 * weight + total) \div (2 * total)

normalizeAuthors(authors) ==
    LET total == totalSum(authors)
        authorsWithPercentage ==
            [i \in DOMAIN authors |->
                [author |-> authors[i].author,
                 contribution |-> percentage(authors[i].contribution, total)]]
        sorted == sortDesc([i \in DOMAIN authors |->
                     [key |-> authorsWithPercentage[i].contribution,
                      val |-> authorsWithPercentage[i]]])
    IN  [i \in DOMAIN sorted |-> sorted[i].val]

RECURSIVE updateAuthorValues(_)
updateAuthorValues(jsonObj) ==
    LET n == IF "authors" \in DOMAIN jsonObj
             THEN [jsonObj EXCEPT !.authors = normalizeAuthors(@)]
             ELSE jsonObj
    IN  IF "children" \in DOMAIN n
        THEN [n EXCEPT !.children =
                 [i \in DOMAIN @ |-> updateAuthorValues(@[i])]]
        ELSE n

----------------------------------------------------------------------------
(* jsonUtils.ts: updateLastChangeDate, updateCommits.  Both read            *)
(* jsonObj.children!.forEach of a tree node: on a tree node without         *)
(* children that is a TypeError, which leaves the nodes visited before it   *)
(* mutated.  The result is [node, threw].                                   *)

\* obj[field] = value
SetField(obj, field, value) == (field :> value) @@ obj

RECURSIVE updateLastChangeDate(_)
RECURSIVE updateLastChangeDateEach(_, _)

updateLastChangeDate(jsonObj) ==
    IF jsonObj.type = "blob" /\ "lastChangeEpoch" \in DOMAIN jsonObj
    THEN [node |-> SetField(jsonObj, "lastChangeEpochFormatted",
                      formatDate(convertUnixTimeToDate(jsonObj.lastChangeEpoch))),
          threw |-> FALSE]
    ELSE IF jsonObj.type = "tree"
    THEN IF "children" \notin DOMAIN jsonObj
         THEN [node |-> jsonObj, threw |-> TRUE]
         ELSE LET r == updateLastChangeDateEach(jsonObj.children, 1)
              IN  [node |-> [jsonObj EXCEPT !.children = r.children],
                   threw |-> r.threw]
    ELSE [node |-> jsonObj, threw |-> FALSE]

\* children.forEach from the i-th child on
updateLastChangeDateEach(children, i) ==
    IF i > Len(children) THEN [children |-> children, threw |-> FALSE]
    ELSE LET r == updateLastChangeDate(children[i])
             cs == [children EXCEPT ![i] = r.node]
         IN  IF r.threw THEN [children |-> cs, threw |-> TRUE]
             ELSE updateLastChangeDateEach(cs, i + 1)

\* propertyKey reading the hash of an entry that is already a Commit record
propertyKeyOfRecord(commitHash) ==
    IF "str" \in DOMAIN commitHash THEN commitHash.str ELSE commitHash.hash

\* the property key that commitsJson[commitHash] reads: the string itself,
\* and String(record) for an entry that is a Commit record
propertyKey(commitHash) ==
    IF "str" \in DOMAIN commitHash THEN commitHash.str ELSE ObjectKey

\* enrichCommits without the sort
enrichCommitsUnsorted(commits, dict) ==
    LET found == SelectSeq(commits, LAMBDA c : propertyKey(c) \in DOMAIN dict)
        commitList == [i \in DOMAIN found |-> dict[propertyKey(found[i])]]
    IN  [i \in DOMAIN commitList |->
            [hash |-> commitList[i].hash,
             message |-> commitList[i].message,
             date |-> formatDate(convertUnixTimeToDate(commitList[i].time))]]

\* enrichCommits keeping only the newest resolved commit
enrichCommitsNewestOnly(commits, dict) ==
    LET found == SelectSeq(commits, LAMBDA c : propertyKey(c) \in DOMAIN dict)
        commitList == [i \in DOMAIN found |-> dict[propertyKey(found[i])]]
        sorted == sortDesc([i \in DOMAIN commitList |->
                     [key |-> commitList[i].time, val |-> commitList[i]]])
    IN  [i \in DOMAIN sorted \cap {1} |->
            [hash |-> sorted[i].val.hash,
             message |-> sorted[i].val.message,
             date |-> formatDate(convertUnixTimeToDate(sorted[i].val.time))]]

enrichCommits(commits, dict) ==
    LET found == SelectSeq(commits, LAMBDA c : propertyKey(c) \in DOMAIN dict)
        commitList == [i \in DOMAIN found |-> dict[propertyKey(found[i])]]
        sorted == sortDesc([i \in DOMAIN commitList |->
                     [key |-> commitList[i].time, val |-> commitList[i]]])
    IN  [i \in DOMAIN sorted |->
            [hash |-> sorted[i].val.hash,
             message |-> sorted[i].val.message,
             date |-> formatDate(convertUnixTimeToDate(sorted[i].val.time))]]

RECURSIVE updateCommits(_, _)
RECURSIVE updateCommitsEach(_, _, _)

updateCommits(jsonObj, dict) ==
    IF jsonObj.type = "blob" /\ "commits" \in DOMAIN jsonObj
    THEN [node |-> [jsonObj EXCEPT !.commits = enrichCommits(@, dict)],
          threw |-> FALSE]
    ELSE IF jsonObj.type = "tree"
    THEN IF "children" \notin DOMAIN jsonObj
         THEN [node |-> jsonObj, threw |-> TRUE]
         ELSE LET r == updateCommitsEach(jsonObj.children, 1, dict)
              IN  [node |-> [jsonObj EXCEPT !.children = r.children],
                   threw |-> r.threw]
    ELSE [node |-> jsonObj, threw |-> FALSE]

updateCommitsEach(children, i, dict) ==
    IF i > Len(children) THEN [children |-> children, threw |-> FALSE]
    ELSE LET r == updateCommits(children[i], dict)
             cs == [children EXCEPT ![i] = r.node]
         IN  IF r.threw THEN [children |-> cs, threw |-> TRUE]
             ELSE updateCommitsEach(cs, i + 1, dict)

----------------------------------------------------------------------------
(* jsonUtils.ts: addMetrics, addSingleAuthor, addTopContributor *)

\* scanTopContributor with >= for >: the last maximum wins
RECURSIVE scanLastMaximum(_, _, _, _)
scanLastMaximum(authors, i, maxContributions, topContributor) ==
    IF i > Len(authors) THEN topContributor
    ELSE IF authors[i].contribution # NaN
            /\ authors[i].contribution >= maxContributions
    THEN scanLastMaximum(authors, i + 1, authors[i].contribution,
                         authors[i].author)
    ELSE scanLastMaximum(authors, i + 1, maxContributions, topContributor)

\* the running maximum of the loop over Object.entries(node.authors), from
\* the i-th entry on; contribution > maxContributions is false for NaN
RECURSIVE scanTopContributor(_, _, _, _)
scanTopContributor(authors, i, maxContributions, topContributor) ==
    IF i > Len(authors) THEN topContributor
    ELSE IF authors[i].contribution # NaN
            /\ authors[i].contribution > maxContributions
    THEN scanTopContributor(authors, i + 1, authors[i].contribution,
                            authors[i].author)
    ELSE scanTopContributor(authors, i + 1, maxContributions, topContributor)

RECURSIVE addTopContributor(_)
addTopContributor(node) ==
    LET n == IF node.type = "blob"
             THEN SetField(node, "topContributor",
                      IF "authors" \in DOMAIN node
                      THEN scanTopContributor(node.authors, 1, -1, "")
                      ELSE "")
             ELSE node
    IN  IF "children" \in DOMAIN n /\ Len(n.children) > 0
        THEN [n EXCEPT !.children =
                 [i \in DOMAIN @ |-> addTopContributor(@[i])]]
        ELSE n

RECURSIVE addMetrics(_)
RECURSIVE addSingleAuthor(_)

\* addSingleAuthor with "at least one author" for "exactly one"
addSingleAuthorAtLeastOne(jsonData) ==
    LET n == IF jsonData.type = "blob"
             THEN SetField(jsonData, "singleAuthor",
                      Len(IF "authors" \in DOMAIN jsonData
                          THEN jsonData.authors ELSE <<>>) >= 1)
             ELSE jsonData
    IN  IF "children" \in DOMAIN n /\ Len(n.children) > 0
        THEN [n EXCEPT !.children = [i \in DOMAIN @ |-> addMetrics(@[i])]]
        ELSE n

addSingleAuthor(jsonData) ==
    LET n == IF jsonData.type = "blob"
             THEN SetField(jsonData, "singleAuthor",
                      Len(IF "authors" \in DOMAIN jsonData
                          THEN jsonData.authors ELSE <<>>) = 1)
             ELSE jsonData
    IN  IF "children" \in DOMAIN n /\ Len(n.children) > 0
        THEN [n EXCEPT !.children = [i \in DOMAIN @ |-> addMetrics(@[i])]]
        ELSE n

addMetrics(jsonData) == addTopContributor(addSingleAuthor(jsonData))

----------------------------------------------------------------------------
(* jsonUtils.ts: the four aggregate statistics *)

Min2(a, b) == IF a <= b THEN a ELSE b
Max2(a, b) == IF a >= b THEN a ELSE b

RECURSIVE getMinCommits(_)
getMinCommits(jsonObj) ==
    LET own == IF jsonObj.type = "blob" /\ "commits" \in DOMAIN jsonObj
               THEN Min2(Infinity, Len(jsonObj.commits))
               ELSE Infinity
        minCommits ==
            IF "children" \in DOMAIN jsonObj
            THEN SetMin({own} \cup {getMinCommits(jsonObj.children[i]) :
                                       i \in DOMAIN jsonObj.children})
            ELSE own
    IN  IF minCommits = Infinity THEN 0 ELSE minCommits

RECURSIVE getMaxCommits(_)
getMaxCommits(jsonObj) ==
    LET own == IF jsonObj.type = "blob" /\ "commits" \in DOMAIN jsonObj
               THEN Max2(0, Len(jsonObj.commits))
               ELSE 0
    IN  IF "children" \in DOMAIN jsonObj
        THEN SetMax({own} \cup {getMaxCommits(jsonObj.children[i]) :
                                   i \in DOMAIN jsonObj.children})
        ELSE own

RECURSIVE getFirstChangeEpoch(_)
getFirstChangeEpoch(jsonObj) ==
    LET own == IF jsonObj.type = "blob" /\ "lastChangeEpoch" \in DOMAIN jsonObj
               THEN Min2(Infinity, jsonObj.lastChangeEpoch)
               ELSE Infinity
        firstChange ==
            IF "children" \in DOMAIN jsonObj
            THEN SetMin({own} \cup {getFirstChangeEpoch(jsonObj.children[i]) :
                                       i \in DOMAIN jsonObj.children})
            ELSE own
    IN  IF firstChange = Infinity THEN 0 ELSE firstChange

RECURSIVE getLastChangeEpoch(_)
getLastChangeEpoch(jsonObj) ==
    LET own == IF jsonObj.type = "blob" /\ "lastChangeEpoch" \in DOMAIN jsonObj
               THEN Max2(0, jsonObj.lastChangeEpoch)
               ELSE 0
    IN  IF "children" \in DOMAIN jsonObj
        THEN SetMax({own} \cup {getLastChangeEpoch(jsonObj.children[i]) :
                                   i \in DOMAIN jsonObj.children})
        ELSE own

----------------------------------------------------------------------------
(* jsonUtils.ts: simplifyContributions, calculateComplexityMetric *)

\* simplifyContributions that leaves the children as they are
simplifyRootOnly(jsonObj) ==
    IF "authors" \in DOMAIN jsonObj /\ Len(jsonObj.authors) > 0
    THEN [jsonObj EXCEPT !.authors = <<@[1]>>]
    ELSE jsonObj

RECURSIVE simplifyContributions(_)
simplifyContributions(jsonObj) ==
    LET simplifiedObj ==
            IF "authors" \in DOMAIN jsonObj /\ Len(jsonObj.authors) > 0
            THEN [jsonObj EXCEPT !.authors = <<@[1]>>]
            ELSE jsonObj
    IN  IF "children" \in DOMAIN simplifiedObj
        THEN [simplifiedObj EXCEPT !.children =
                 [i \in DOMAIN @ |-> simplifyContributions(@[i])]]
        ELSE simplifiedObj

\* calculateComplexity counting the children of the node for the blobs
\* beneath it
calculateComplexityOfChildren(node) ==
    IF node.type = "blob" THEN 1
    ELSE IF "children" \in DOMAIN node THEN Len(node.children)
    ELSE 0

RECURSIVE calculateComplexity(_)
calculateComplexity(node) ==
    IF node.type = "blob" THEN 1
    ELSE IF "children" \in DOMAIN node
    THEN SeqSum([i \in DOMAIN node.children |->
                    calculateComplexity(node.children[i])])
    ELSE 0

\* the loop over Object.entries(node.authors) from the i-th entry on;
\* authorComplexity is a function from the authors seen so far
RECURSIVE creditAuthors(_, _, _)
creditAuthors(node, i, authorComplexity) ==
    IF i > Len(node.authors) THEN authorComplexity
    ELSE LET author == node.authors[i].author
             zeroed == IF author \notin DOMAIN authorComplexity
                          \/ authorComplexity[author] = 0
                       THEN (author :> 0) @@ authorComplexity
                       ELSE authorComplexity
         IN  creditAuthors(node, i + 1,
                 [zeroed EXCEPT ![author] = @ + calculateComplexity(node)])

RECURSIVE traverseTree(_, _)
RECURSIVE traverseChildren(_, _, _)

traverseTree(node, authorComplexity) ==
    LET credited == IF "authors" \in DOMAIN node
                    THEN creditAuthors(node, 1, authorComplexity)
                    ELSE authorComplexity
    IN  IF "children" \in DOMAIN node
        THEN traverseChildren(node.children, 1, credited)
        ELSE credited

\* node.children.forEach((child) => traverseTree(child)) from the i-th on
traverseChildren(children, i, authorComplexity) ==
    IF i > Len(children) THEN authorComplexity
    ELSE traverseChildren(children, i + 1,
             traverseTree(children[i], authorComplexity))

calculateComplexityMetric(t) == traverseTree(t, <<>>)

----------------------------------------------------------------------------
(* The inputs: the trees and dictionaries of the upstream producer *)

Entry(a, w) == [author |-> a, contribution |-> w]

\* the authors objects with at most two of the authors, two authors in the
\* order of AuthorNames, with raw weights from W
AuthorMaps(W) ==
    {<<>>}
    \cup {<<Entry(a, w)>> : a \in Authors, w \in W}
    \cup {<<Entry(AuthorNames[ij[1]], wv[1]), Entry(AuthorNames[ij[2]], wv[2])>> :
             ij \in {x \in (DOMAIN AuthorNames) \X (DOMAIN AuthorNames) : x[1] < x[2]},
             wv \in W \X W}

AuthorBlobs ==
    {[type |-> "blob"]}
    \cup {[type |-> "blob", authors |-> m] : m \in AuthorMaps(Weights)}

AuthorTreeLabels ==
    {[type |-> "tree"],
     [type |-> "tree", authors |-> <<Entry("A", 1), Entry("B", 2)>>]}

CommitLists ==
    UNION {[1..n -> {[str |-> h] : h \in Hashes}] : n \in 0..MaxCommits}

HashListBlobs ==
    {[type |-> "blob"]}
    \cup {[type |-> "blob", commits |-> c] : c \in CommitLists}

\* blobs with or without commits, a change epoch and two authors
CommitBlobs ==
    LET dated == HashListBlobs
                 \cup {SetField(b, "lastChangeEpoch", e) :
                          b \in HashListBlobs, e \in Epochs}
    IN  dated
        \cup {SetField(b, "authors", <<Entry("A", 1), Entry("B", 2)>>) :
                 b \in dated}

CommitTreeLabels == {[type |-> "tree"]}

\* the trees of exactly k nodes and the child lists of k nodes in all; a
\* tree node has no children field, an empty children list, or children
RECURSIVE TreesOf(_, _, _)
RECURSIVE ForestsOf(_, _, _)

TreesOf(k, blobs, labels) ==
    IF k = 1
    THEN blobs \cup labels \cup {SetField(l, "children", <<>>) : l \in labels}
    ELSE {SetField(l, "children", f) :
             l \in labels, f \in ForestsOf(k - 1, blobs, labels)}

ForestsOf(k, blobs, labels) ==
    IF k = 0 THEN {<<>>}
    ELSE UNION {{<<t>> \o f : t \in TreesOf(j, blobs, labels),
                              f \in ForestsOf(k - j, blobs, labels)} :
                   j \in 1..k}

Trees(blobs, labels) == UNION {TreesOf(k, blobs, labels) : k \in 1..MaxNodes}

RawCommit(h, t) ==
    [hash |-> h, message |-> <<"message of", h>>, time |-> t, author |-> "A"]

\* the dictionaries over the hashes, with or without the key ObjectKey,
\* with commit times from T
DictionariesOver(T) ==
    UNION {{[h \in K |-> RawCommit(h, time[h])] : time \in [K -> T]} :
              K \in SUBSET (Hashes \cup {ObjectKey})}

Dictionaries == DictionariesOver(Times)

\* the statistics read no commit time: one time for every commit
UndatedDictionaries == DictionariesOver({SetMax(Times)})

----------------------------------------------------------------------------
(* The state machine *)

Stages == {"updateAuthorValues", "updateLastChangeDate", "updateCommits",
           "addMetrics"}

NoOut == [op |-> "none"]

InitWith(trees, dicts) ==
    /\ input \in trees
    /\ tree = input
    /\ commitsJson \in dicts
    /\ runs = [s \in Stages |-> 0]
    /\ status = "ok"
    /\ out = NoOut

\* an in-place stage ran on tree and returned, or threw
Ran(stage, node, threw) ==
    /\ tree' = node
    /\ runs' = [runs EXCEPT ![stage] = @ + 1]
    /\ status' = IF threw THEN "error" ELSE "ok"
    /\ out' = NoOut
    /\ UNCHANGED <<input, commitsJson>>

\* htmlParser.ts: updateAuthorValues is the first stage of every pipeline
UpdateAuthorValues ==
    /\ status = "ok"
    /\ \A s \in Stages : runs[s] = 0
    /\ Ran("updateAuthorValues", updateAuthorValues(tree), FALSE)

UpdateLastChangeDate ==
    /\ status = "ok"
    /\ runs["updateLastChangeDate"] = 0
    /\ LET r == updateLastChangeDate(tree)
       IN  Ran("updateLastChangeDate", r.node, r.threw)

\* updateRepositoryCommits
UpdateCommits ==
    /\ status = "ok"
    /\ runs["updateCommits"] < MaxPasses
    /\ LET r == updateCommits(tree, commitsJson)
       IN  Ran("updateCommits", r.node, r.threw)

AddMetrics ==
    /\ status = "ok"
    /\ runs["addMetrics"] = 0
    /\ Ran("addMetrics", addMetrics(tree), FALSE)

\* htmlParser.ts parseBranchData: the four statistics of the tree
GetStats ==
    /\ status = "ok"
    /\ out' = [op |-> "stats",
               minCommits |-> getMinCommits(tree),
               maxCommits |-> getMaxCommits(tree),
               firstChange |-> getFirstChangeEpoch(tree),
               lastChange |-> getLastChangeEpoch(tree)]
    /\ UNCHANGED <<input, tree, commitsJson, runs, status>>

SimplifyContributions ==
    /\ status = "ok"
    /\ out' = [op |-> "simplifyContributions",
               value |-> simplifyContributions(tree)]
    /\ UNCHANGED <<input, tree, commitsJson, runs, status>>

CalculateComplexityMetric ==
    /\ status = "ok"
    /\ out' = [op |-> "calculateComplexityMetric",
               value |-> calculateComplexityMetric(tree)]
    /\ UNCHANGED <<input, tree, commitsJson, runs, status>>

\* the author pipelines: trees whose nodes carry authors
InitAuthors == InitWith(Trees(AuthorBlobs, AuthorTreeLabels), {<<>>})

NextAuthors ==
    \/ UpdateAuthorValues
    \/ AddMetrics
    \/ SimplifyContributions
    \/ CalculateComplexityMetric

SpecAuthors == InitAuthors /\ [][NextAuthors]_vars

\* the commit pipelines: blobs with commits, change epochs and authors, and
\* a commit dictionary
InitCommits ==
    InitWith(Trees(CommitBlobs, CommitTreeLabels), UndatedDictionaries)

NextCommits ==
    \/ UpdateAuthorValues
    \/ UpdateLastChangeDate
    \/ UpdateCommits
    \/ AddMetrics
    \/ GetStats

SpecCommits == InitCommits /\ [][NextCommits]_vars

\* updateRepositoryCommits alone, over blobs with commits, once or again
InitEnrich == InitWith(Trees(HashListBlobs, CommitTreeLabels), Dictionaries)

NextEnrich == UpdateCommits

SpecEnrich == InitEnrich /\ [][NextEnrich]_vars

----------------------------------------------------------------------------
(* Vocabulary of the properties *)

\* the nodes of a tree, each named by the child indices that lead to it
RECURSIVE Paths(_)
Paths(n) ==
    {<<>>} \cup
    (IF "children" \in DOMAIN n
     THEN UNION {{<<i>> \o p : p \in Paths(n.children[i])} :
                    i \in DOMAIN n.children}
     ELSE {})

RECURSIVE NodeAt(_, _)
NodeAt(n, p) == IF p = <<>> THEN n ELSE NodeAt(n.children[Head(p)], Tail(p))

BlobPaths(n) == {p \in Paths(n) : NodeAt(n, p).type = "blob"}

HasAuthors(n) == "authors" \in DOMAIN n
Keys(authors) == {authors[i].author : i \in DOMAIN authors}
PositionOf(authors, a) == CHOOSE i \in DOMAIN authors : authors[i].author = a
ValueOf(authors, a) == authors[PositionOf(authors, a)].contribution

\* the sum of f[x] over the x of S
RECURSIVE SumFn(_, _)
SumFn(f, S) ==
    IF S = {} THEN 0
    ELSE LET x == CHOOSE y \in S : TRUE IN f[x] + SumFn(f, S \ {x})

RawTotal(authors) == SumFn([i \in DOMAIN authors |-> authors[i].contribution],
                           DOMAIN authors)

\* r is weight / total * 100 rounded to the nearest integer, halves up
IsRoundedPercent(r, weight, total) ==
    /\ r \in 0..100
    /\ 2 * r * total <= 200 * weight + total
    /\ 200 * weight + total < 2 * (r + 1) * total

\* norm is the raw authors map normalized as section 4.1 says
IsNormalized(raw, norm) ==
    /\ Len(norm) = Len(raw)
    /\ Keys(norm) = Keys(raw)
    /\ \A i \in DOMAIN norm :
          IsRoundedPercent(norm[i].contribution,
                           ValueOf(raw, norm[i].author), RawTotal(raw))
    /\ \A i, j \in DOMAIN norm :
          i < j =>
             \/ norm[i].contribution > norm[j].contribution
             \/ /\ norm[i].contribution = norm[j].contribution
                /\ PositionOf(raw, norm[i].author) < PositionOf(raw, norm[j].author)

Normalized == runs["updateAuthorValues"] = 1

----------------------------------------------------------------------------
(* C1 *)

\* C1 as stated: after updateAuthorValues every node with at least one
\* author has the same keys, each value round(weight / total * 100) in
\* 0..100, in descending order with ties in raw order.
C1_AnyWeights ==
    Normalized =>
       \A p \in Paths(input) :
          HasAuthors(NodeAt(input, p)) /\ Len(NodeAt(input, p).authors) >= 1
             => IsNormalized(NodeAt(input, p).authors, NodeAt(tree, p).authors)

\* C1, amended: the same of every node whose raw weights have a positive
\* total; a node whose raw weights are all 0 gets NaN for every author.
C1_PositiveTotal ==
    Normalized =>
       \A p \in Paths(input) :
          HasAuthors(NodeAt(input, p)) /\ Len(NodeAt(input, p).authors) >= 1
             => IF RawTotal(NodeAt(input, p).authors) > 0
                THEN IsNormalized(NodeAt(input, p).authors,
                                  NodeAt(tree, p).authors)
                ELSE \A i \in DOMAIN NodeAt(tree, p).authors :
                        NodeAt(tree, p).authors[i].contribution = NaN

\* a blob below the root whose second author outweighs the first was
\* reordered and rounded: {A: 1, B: 2} became {B: 67, A: 33}
C1_Witness ==
    /\ Normalized
    /\ \E p \in Paths(input) :
          /\ p # <<>>
          /\ NodeAt(input, p) =
                [type |-> "blob", authors |-> <<Entry("A", 1), Entry("B", 2)>>]
          /\ NodeAt(tree, p).authors = <<Entry("B", 67), Entry("A", 33)>>

----------------------------------------------------------------------------
(* C2 *)

AnnotatedAfterNormalizing == Normalized /\ runs["addMetrics"] = 1

\* top is the first key of authors that holds the maximum value
IsFirstMaximum(authors, top) ==
    \E i \in DOMAIN authors :
       /\ authors[i].author = top
       /\ \A j \in DOMAIN authors :
             /\ authors[j].contribution <= authors[i].contribution
             /\ j < i => authors[j].contribution < authors[i].contribution

TopContributorRight(blob) ==
    IF HasAuthors(blob) /\ Len(blob.authors) >= 1
    THEN IsFirstMaximum(blob.authors, blob.topContributor)
    ELSE blob.topContributor = ""

\* C2 as stated: after updateAuthorValues and addMetrics every blob's
\* topContributor is the first key holding the maximum value of its
\* authors map, and "" only when the map is empty or absent.
C2_AnyWeights ==
    AnnotatedAfterNormalizing =>
       \A p \in BlobPaths(tree) : TopContributorRight(NodeAt(tree, p))

\* C2, amended: the same of every blob whose raw weights have a positive
\* total (or that has no author); a blob whose raw weights are all 0 has
\* topContributor "" although its map has keys.
C2_PositiveTotal ==
    AnnotatedAfterNormalizing =>
       \A p \in BlobPaths(tree) :
          IF HasAuthors(NodeAt(input, p))
             /\ Len(NodeAt(input, p).authors) >= 1
             /\ RawTotal(NodeAt(input, p).authors) = 0
          THEN NodeAt(tree, p).topContributor = ""
          ELSE TopContributorRight(NodeAt(tree, p))

\* a blob below the root with two authors of equal weight: both hold 50
\* and the first one is the top contributor
C2_Witness ==
    /\ AnnotatedAfterNormalizing
    /\ \E p \in BlobPaths(tree) :
          /\ p # <<>>
          /\ HasAuthors(NodeAt(tree, p))
          /\ NodeAt(tree, p).authors = <<Entry("A", 50), Entry("B", 50)>>
          /\ NodeAt(tree, p).topContributor = "A"

----------------------------------------------------------------------------
(* C8 *)

\* C8: after addMetrics every blob carries singleAuthor and topContributor,
\* singleAuthor is true exactly when the blob has exactly one author, and
\* no tree node carries either field.
C8_MetricsOnBlobsOnly ==
    runs["addMetrics"] = 1 =>
       \A p \in Paths(tree) :
          LET n == NodeAt(tree, p)
          IN  IF n.type = "blob"
              THEN /\ {"singleAuthor", "topContributor"} \subseteq DOMAIN n
                   /\ n.singleAuthor = (HasAuthors(n) /\ Len(n.authors) = 1)
              ELSE {"singleAuthor", "topContributor"} \cap DOMAIN n = {}

\* an annotated tree with a blob two levels down that has exactly one
\* author, under tree nodes that carry authors and no metric
C8_Witness ==
    /\ runs["addMetrics"] = 1
    /\ \E p \in BlobPaths(tree) :
          /\ Len(p) = 2
          /\ NodeAt(tree, p).singleAuthor
          /\ NodeAt(tree, p).topContributor = "B"
          /\ HasAuthors(NodeAt(tree, <<p[1]>>))

----------------------------------------------------------------------------
(* C6 *)

\* the number of blob nodes in the subtree of n, n included
BlobCount(n) == Cardinality(BlobPaths(n))

\* the nodes of t whose authors map has the key a
PathsWithAuthor(t, a) ==
    {p \in Paths(t) : HasAuthors(NodeAt(t, p)) /\ a \in Keys(NodeAt(t, p).authors)}

\* C6: the keys of calculateComplexityMetric are the authors of some node,
\* and an author's value is the sum, over the nodes that carry the author,
\* of the blobs in the node's subtree.
C6_ComplexityIsBlobsPerLevel ==
    out.op = "calculateComplexityMetric" =>
       /\ DOMAIN out.value = {a \in Authors : PathsWithAuthor(tree, a) # {}}
       /\ \A a \in DOMAIN out.value :
             out.value[a] =
                SumFn([p \in PathsWithAuthor(tree, a) |-> BlobCount(NodeAt(tree, p))],
                      PathsWithAuthor(tree, a))

\* author A is on the root and on both blobs beneath it: 2 + 1 + 1
C6_Witness ==
    /\ out.op = "calculateComplexityMetric"
    /\ tree.type = "tree"
    /\ PathsWithAuthor(tree, "A") = {<<>>, <<1>>, <<2>>}
    /\ BlobPaths(tree) = {<<1>>, <<2>>}
    /\ out.value["A"] = 4

----------------------------------------------------------------------------
(* C7 *)

\* C7: simplifyContributions keeps the shape and the child order; a node
\* with authors keeps exactly its first entry, a node without gets none;
\* and after updateAuthorValues with a positive total the kept author
\* holds the maximum percentage of the node.
C7_KeepsFirstAuthor ==
    out.op = "simplifyContributions" =>
       /\ Paths(out.value) = Paths(tree)
       /\ \A p \in Paths(tree) :
             LET n == NodeAt(tree, p)
                 m == NodeAt(out.value, p)
             IN  /\ m.type = n.type
                 /\ DOMAIN m = DOMAIN n
                 /\ \A f \in DOMAIN n \ {"authors", "children"} : m[f] = n[f]
                 /\ HasAuthors(n) =>
                       /\ Len(m.authors) <= 1
                       /\ Len(n.authors) >= 1 => m.authors = <<n.authors[1]>>
                 /\ (/\ Normalized
                     /\ HasAuthors(n)
                     /\ Len(n.authors) >= 1
                     /\ RawTotal(NodeAt(input, p).authors) > 0)
                       => \A i \in DOMAIN n.authors :
                             n.authors[i].contribution <= m.authors[1].contribution

\* a simplified normalized tree: the blob {A: 1, B: 2} two levels down keeps
\* only B: 67
C7_Witness ==
    /\ out.op = "simplifyContributions"
    /\ Normalized
    /\ \E p \in Paths(input) :
          /\ Len(p) = 2
          /\ NodeAt(input, p) =
                [type |-> "blob", authors |-> <<Entry("A", 1), Entry("B", 2)>>]
          /\ NodeAt(out.value, p).authors = <<Entry("B", 67)>>

----------------------------------------------------------------------------
(* C3 *)

HasCommits(n) == n.type = "blob" /\ "commits" \in DOMAIN n

\* the positions of a raw commits list whose hash is a key of the dictionary
Resolved(raw) == {i \in DOMAIN raw : raw[i].str \in DOMAIN commitsJson}

\* enriched lists the resolved entries of raw: newest first, and entries of
\* equal time in the order of raw
IsEnriched(raw, enriched) ==
    /\ Len(enriched) = Len(raw) - Cardinality(DOMAIN raw \ Resolved(raw))
    /\ \E order \in [DOMAIN enriched -> Resolved(raw)] :
          /\ \A i, j \in DOMAIN enriched : i # j => order[i] # order[j]
          /\ \A i \in DOMAIN enriched :
                /\ enriched[i].hash = commitsJson[raw[order[i]].str].hash
                /\ enriched[i].message = commitsJson[raw[order[i]].str].message
          /\ \A i, j \in DOMAIN enriched :
                i < j =>
                   LET ti == commitsJson[raw[order[i]].str].time
                       tj == commitsJson[raw[order[j]].str].time
                   IN  ti > tj \/ (ti = tj /\ order[i] < order[j])

FirstPassReturned == runs["updateCommits"] = 1 /\ status = "ok"

\* C3: after updateCommits a blob's commits list has the length of the raw
\* list minus the hashes the dictionary lacks, and holds the resolved
\* commits by time descending, equal times in raw order.
C3_CommitsResolvedNewestFirst ==
    FirstPassReturned =>
       \A p \in BlobPaths(input) :
          HasCommits(NodeAt(input, p))
             => IsEnriched(NodeAt(input, p).commits, NodeAt(tree, p).commits)

\* a blob [h1, h2] two levels down lost h1, which the dictionary lacks
C3_Witness ==
    /\ FirstPassReturned
    /\ "h1" \notin DOMAIN commitsJson
    /\ \E p \in BlobPaths(input) :
          /\ Len(p) = 2
          /\ HasCommits(NodeAt(input, p))
          /\ NodeAt(input, p).commits = <<[str |-> "h1"], [str |-> "h2"]>>
          /\ Len(NodeAt(tree, p).commits) = 1
          /\ NodeAt(tree, p).commits[1].hash = "h2"

----------------------------------------------------------------------------
(* C4, C5 *)

EveryBlobHasCommits(t) == \A p \in BlobPaths(t) : HasCommits(NodeAt(t, p))

\* C4 as stated: getMinCommits is the minimum of commits.length over the
\* blobs of the tree, and 0 when the tree has no blob.
C4_MinOverBlobs ==
    (out.op = "stats" /\ EveryBlobHasCommits(tree)) =>
       out.minCommits =
          IF BlobPaths(tree) = {} THEN 0
          ELSE SetMin({Len(NodeAt(tree, p).commits) : p \in BlobPaths(tree)})

EpochPaths(t) ==
    {p \in BlobPaths(t) : "lastChangeEpoch" \in DOMAIN NodeAt(t, p)}

\* C5 as stated: getFirstChangeEpoch is the minimum lastChangeEpoch over
\* the blobs that define one, and 0 when no blob defines one.
C5_FirstOverBlobsWithEpoch ==
    out.op = "stats" =>
       out.firstChange =
          IF EpochPaths(tree) = {} THEN 0
          ELSE SetMin({NodeAt(tree, p).lastChangeEpoch : p \in EpochPaths(tree)})

----------------------------------------------------------------------------
(* C9 *)

StatsOf(t) ==
    [op |-> "stats",
     minCommits |-> getMinCommits(t),
     maxCommits |-> getMaxCommits(t),
     firstChange |-> getFirstChangeEpoch(t),
     lastChange |-> getLastChangeEpoch(t)]

\* C9 as stated: the four statistics of the tree after any of the in-place
\* stages are the four statistics of the raw tree.
C9_StatsOfAnyStage ==
    (out.op = "stats" /\ runs["updateCommits"] <= 1) => out = StatsOf(input)

\* every hash a blob of the raw tree lists is a key of the dictionary
EveryHashResolves ==
    \A p \in BlobPaths(input) :
       HasCommits(NodeAt(input, p))
          => Resolved(NodeAt(input, p).commits) = DOMAIN NodeAt(input, p).commits

\* C9, amended: the two change epochs are those of the raw tree after any
\* of the stages; the two commit counts are those of the raw tree after
\* updateAuthorValues, updateLastChangeDate and addMetrics, and after one
\* pass of updateCommits when the dictionary has every hash the blobs list
\* (updateCommits drops the others, which shortens the lists).
C9_StatsUnlessHashesDropped ==
    (out.op = "stats" /\ runs["updateCommits"] <= 1) =>
       /\ out.firstChange = getFirstChangeEpoch(input)
       /\ out.lastChange = getLastChangeEpoch(input)
       /\ (runs["updateCommits"] = 0 \/ EveryHashResolves)
             => /\ out.minCommits = getMinCommits(input)
                /\ out.maxCommits = getMaxCommits(input)

\* the statistics after all four stages of a tree of two blobs with commits
\* and change epochs, one of them with normalized authors, every hash in
\* the dictionary
C9_Witness ==
    /\ out.op = "stats"
    /\ \A s \in Stages : runs[s] = 1
    /\ EveryHashResolves
    /\ \E p \in BlobPaths(tree) :
          /\ HasAuthors(NodeAt(tree, p))
          /\ NodeAt(tree, p).topContributor = "B"
          /\ "lastChangeEpochFormatted" \in DOMAIN NodeAt(tree, p)
    /\ out.minCommits = 1
    /\ out.maxCommits = 2
    /\ out.firstChange = 0
    /\ out.lastChange = 1700000000

----------------------------------------------------------------------------
(* C10 *)

SecondPassDone == runs["updateCommits"] >= 2

\* C10 as stated: a second pass of updateCommits over the enriched tree
\* ends in an error.
C10_SecondPassFails == SecondPassDone => status = "error"

\* the Commit record of a RawCommit
CommitOf(raw) ==
    [hash |-> raw.hash, message |-> raw.message,
     date |-> formatDate(convertUnixTimeToDate(raw.time))]

\* C10, amended: a second pass returns normally; each Commit record is
\* looked up under the key "[object Object]", so a blob's commits list
\* becomes empty, or, when the dictionary has that key, as many copies of
\* that one commit as the first pass had resolved.
C10_SecondPassEmptiesCommits ==
    SecondPassDone =>
       /\ status = "ok"
       /\ \A p \in BlobPaths(input) :
             HasCommits(NodeAt(input, p)) =>
                NodeAt(tree, p).commits =
                   IF ObjectKey \in DOMAIN commitsJson
                   THEN [i \in 1..Cardinality(Resolved(NodeAt(input, p).commits))
                            |-> CommitOf(commitsJson[ObjectKey])]
                   ELSE <<>>

\* after the second pass a blob two levels down whose two hashes the
\* dictionary has is left with no commit
C10_Witness ==
    /\ SecondPassDone
    /\ status = "ok"
    /\ \E p \in BlobPaths(input) :
          /\ Len(p) = 2
          /\ HasCommits(NodeAt(input, p))
          /\ Cardinality(Resolved(NodeAt(input, p).commits)) = 2
          /\ NodeAt(tree, p).commits = <<>>

============================================================================
